---------------------------- MODULE Spec2Model ----------------------------
(***************************************************************************)
(* A model of IndexedDBService (src/src/lib/indexed-db.service.ts): the    *)
(* RxJS facade over the browser's IndexedDB.  The state is the service's   *)
(* fields (db, db_event), the browser's persisted storage, and one record  *)
(* per subscription holding the closure variables of its callbacks and     *)
(* what its subscriber has received.  One action per subscribe function    *)
(* and per callback (onsuccess, onerror, onupgradeneeded, oncomplete).     *)
(*                                                                         *)
(* IndexedDB itself and RxJS are libraries; they are modelled by what      *)
(* their specifications say the calls made by the service do:              *)
(*  - add fails with ConstraintError on an existing key, put overwrites,   *)
(*    delete and clear succeed on anything, get yields undefined for a     *)
(*    missing key, createObjectStore throws on an existing name;           *)
(*  - an exception thrown by an upgradeneeded handler aborts the upgrade   *)
(*    transaction and the open request then reports an error;              *)
(*  - after a migration the transaction's complete event is delivered      *)
(*    before the open request's success event;                             *)
(*  - readwrite transactions on the same object store run one at a time,   *)
(*    in the order they were created;                                      *)
(*  - a Subscriber ignores next/error/complete once it has stopped.        *)
(***************************************************************************)
EXTENDS Integers, Sequences, FiniteSets, TLC

----------------------------------------------------------------------------
(* Bounds of the model *)

\* primary keys are 1..MaxKey
MaxKey == 2
\* record subscriptions (save, find, ...) per behaviour of a whole session
MaxSubs == 1
\* record subscriptions per behaviour of an initialized session
MaxOps == 2
\* subscriptions to inicializar per behaviour
MaxInits == 1
\* highest database version requested or stored
MaxVersion == 2
\* largest skip (the inputs also hold the negative skip -1)
MaxSkip == 3
\* largest limit
MaxLimit == 3
\* find subscriptions per behaviour of the scan specification
MaxScans == 3
\* largest skip and limit of a find among the other operations
MaxSessionSkip == 1
MaxSessionLimit == 2
\* calls of find when the scans are followed step by step, and the largest
\* key of their collection
MaxFinds == 1
MaxFindKey == 3
\* subscriptions to the observables that find returned
MaxResubs == 2
\* calls of inicializar in a session that initializes more than once
MaxReinits == 2
\* subscriptions to db_event
MaxObservers == 2
\* record operations called between the initializations
MaxGates == 2

----------------------------------------------------------------------------
(* Values *)

StoreNames == {"users", "items"}
Keys == 1..MaxKey

\* the error db_inicializada raises (line 107)
msj == "No se ha inicializado la BD"

\* the data the application stores: two shapes per key, so that replacing a
\* record and merging into it differ
Datos(k) == {[id |-> k, nombre |-> "a"], [id |-> k, edad |-> 1]}
AllDatos == UNION {Datos(k) : k \in Keys}

\* the descriptors given to inicializar: ordered, unique by name
Schemas == {<<"users">>, <<"users", "items">>}

\* the collection the record operations are called on
Tablas == {"users"}

\* an object store that does not exist
NoStore == [exists |-> FALSE]
\* an object store with its key path and its records by key
Store(kp, rows) == [exists |-> TRUE, keyPath |-> kp, rows |-> rows]

\* the first n keys, each with a record
FirstRows(n) == [k \in 1..n |-> [id |-> k, nombre |-> "a"]]

\* what subscribers receive
ValThis == [kind |-> "this"]
ValUndefined == [kind |-> "undefined"]
ValDb(h) == [kind |-> "db", v |-> h]
ValRecord(r) == [kind |-> "record", v |-> r]
ValCount(n) == [kind |-> "count", v |-> n]
\* find emits the array `datos` of its call, by reference
ValDatos(c) == [kind |-> "datos", call |-> c]

VARIABLES
    indexedDB, \* whether the browser has window.indexedDB
    idb,       \* the browser's storage: [version, stores]; version 0: none
    conns,     \* connections opened in this session (never closed)
    db,        \* this.db: 0 when absent, else the connection
    db_event,  \* the values the ReplaySubject db_event holds
    observers, \* the subscribers of db_event: what each was replayed and got live
    inits,     \* the subscriptions to inicializar, in order
    calls,     \* the calls of find: paginacion and datos of each
    subs       \* the subscriptions to record operations, in order

vars == <<indexedDB, idb, conns, db, db_event, observers, inits, calls, subs>>

----------------------------------------------------------------------------
(* RxJS Subscriber: s is a subscription record with st and vals *)

\* a subscriber that is not stopped by complete() or error()
Next_unstopped(s, v) == [s EXCEPT !.vals = Append(@, v)]

\* subscriber.next(v)
Next_(s, v) ==
    IF s.st = "open" THEN [s EXCEPT !.vals = Append(@, v)] ELSE s

\* subscriber.complete()
Complete(s) ==
    IF s.st = "open" THEN [s EXCEPT !.st = "completed"] ELSE s

\* subscriber.error(e)
Error(s, e) ==
    IF s.st = "open" THEN [s EXCEPT !.st = "errored", !.err = e] ELSE s

----------------------------------------------------------------------------
(* IndexedDB requests on an object store's records *)

Min(S) == CHOOSE x \in S : \A y \in S : x <= y

\* IDBObjectStore.add: never overwrites
IDBadd(store, data) ==
    LET key == data[store.keyPath] IN
    IF key \in DOMAIN store.rows
    THEN [ok |-> FALSE, rows |-> store.rows]
    ELSE [ok |-> TRUE,
          rows |-> [k \in DOMAIN store.rows \cup {key} |->
                       IF k = key THEN data ELSE store.rows[k]]]

\* IDBObjectStore.put: inserts or replaces the whole record
IDBput(store, data) ==
    LET key == data[store.keyPath] IN
    [ok |-> TRUE,
     rows |-> [k \in DOMAIN store.rows \cup {key} |->
                  IF k = key THEN data ELSE store.rows[k]]]

\* IDBObjectStore.get: the record, or undefined
IDBget(store, id) ==
    IF id \in DOMAIN store.rows THEN ValRecord(store.rows[id]) ELSE ValUndefined

\* IDBObjectStore.delete
IDBdelete(store, id) ==
    [k \in DOMAIN store.rows \ {id} |-> store.rows[k]]

\* IDBObjectStore.clear
IDBclear(store) == << >>

\* IDBObjectStore.count
IDBcount(store) == Cardinality(DOMAIN store.rows)

\* The key a cursor request delivers, 0 for a null cursor.  "open" is
\* openCursor(), "advance" is cursor.advance(n) and "continue" is
\* cursor.continue(), from the cursor's position pos in key order.  A
\* subscription keeps its outstanding request as req, pos and n.
CursorResult(store, req, pos, n) ==
    LET after == {k \in DOMAIN store.rows : k > pos}
        hop == IF req = "advance" THEN n ELSE 1
        at == {k \in after : Cardinality({j \in after : j <= k}) = hop}
    IN  IF at = {} THEN 0 ELSE Min(at)

----------------------------------------------------------------------------
(* The state after construction (lines 8-12), in a browser that may hold   *)
(* a database of an earlier session                                        *)

NoStores == [n \in StoreNames |-> NoStore]

Persisted ==
    {[version |-> 0, stores |-> NoStores]}
    \cup {[version |-> 1,
           stores |-> [NoStores EXCEPT !["users"] = Store("id", FirstRows(n))]]
          : n \in 0..MaxKey}
    \cup {[version |-> 1,
           stores |-> [n \in StoreNames |-> Store("id", << >>)]]}

Init ==
    /\ indexedDB \in BOOLEAN
    /\ idb \in Persisted
    /\ indexedDB = FALSE => idb.version = 0
    /\ conns = 0
    /\ db = 0
    /\ db_event = << >>
    /\ observers = << >>
    /\ inits = << >>
    /\ calls = << >>
    /\ subs = << >>

----------------------------------------------------------------------------
(* inicializar (lines 25-95) *)

\* the open requests before i have all been answered
OpenTurn(i) == \A j \in 1..(i - 1) : inits[j].pc = "closed"

\* subscribing: the capability check and indexDB.open (lines 29-41, 88-93)
inicializar(opciones, iDBOpcionesObjectStore) ==
    /\ LET s == [version |-> opciones, schema |-> iDBOpcionesObjectStore,
                 pc |-> "opening", st |-> "open", vals |-> << >>, err |-> ""]
       IN  inits' = Append(inits,
                IF indexedDB THEN s
                ELSE [Error(s, "Hubo un error") EXCEPT !.pc = "closed"])
    /\ UNCHANGED <<indexedDB, observers, idb, conns, db, db_event, calls, subs>>

\* db.createObjectStore for each entry, in order (lines 59-71): the stores
\* afterwards, and whether a createObjectStore threw (the name exists)
RECURSIVE createObjectStores(_, _)
createObjectStores(stores, schema) ==
    IF schema = << >> THEN [threw |-> FALSE, stores |-> stores]
    ELSE IF stores[Head(schema)].exists THEN [threw |-> TRUE, stores |-> stores]
    ELSE createObjectStores(
            [stores EXCEPT ![Head(schema)] = Store("id", << >>)], Tail(schema))

\* an upgrade handler that keeps and publishes request.result at once
inicializar_onupgradeneeded_publishes(i) ==
    /\ i \in DOMAIN inits
    /\ inits[i].pc = "opening"
    /\ OpenTurn(i)
    /\ inits[i].version > idb.version
    /\ conns = 0
    /\ LET r == createObjectStores(idb.stores, inits[i].schema) IN
       IF r.threw
       THEN /\ inits' = [inits EXCEPT ![i].pc = "aborted"]
            /\ idb' = idb
       ELSE /\ inits' = [inits EXCEPT ![i].pc = "upgrading"]
            /\ idb' = [version |-> inits[i].version, stores |-> r.stores]
    /\ db' = conns + 1
    /\ db_event' = Append(db_event, db')
    /\ UNCHANGED <<indexedDB, observers, conns, calls, subs>>

\* request.onupgradeneeded (lines 51-82): the requested version is above the
\* stored one.  The upgrade waits until the connections opened earlier are
\* closed, and the service closes none: with one open, this request and
\* those behind it stay "opening".  A throwing handler aborts the upgrade:
\* nothing is created, the version stays.
inicializar_onupgradeneeded(i) ==
    /\ i \in DOMAIN inits
    /\ inits[i].pc = "opening"
    /\ OpenTurn(i)
    /\ inits[i].version > idb.version
    /\ conns = 0
    /\ LET r == createObjectStores(idb.stores, inits[i].schema) IN
       IF r.threw
       THEN /\ inits' = [inits EXCEPT ![i].pc = "aborted"]
            /\ idb' = idb
       ELSE /\ inits' = [inits EXCEPT ![i].pc = "upgrading"]
            /\ idb' = [version |-> inits[i].version, stores |-> r.stores]
    /\ UNCHANGED <<indexedDB, observers, conns, db, db_event, calls, subs>>

\* transaction.oncomplete (lines 74-81)
inicializar_oncomplete(i) ==
    /\ i \in DOMAIN inits
    /\ inits[i].pc = "upgrading"
    /\ inits' = [inits EXCEPT
                   ![i] = [Complete(Next_(@, ValUndefined)) EXCEPT !.pc = "upgraded"]]
    /\ UNCHANGED <<indexedDB, observers, idb, conns, db, db_event, calls, subs>>

\* a success handler that stores the handle and does not publish it
inicializar_onsuccess_silent(i) ==
    /\ i \in DOMAIN inits
    /\ \/ inits[i].pc = "upgraded"
       \/ /\ inits[i].pc = "opening"
          /\ OpenTurn(i)
          /\ inits[i].version = idb.version
    /\ conns' = conns + 1
    /\ db' = conns'
    /\ inits' = [inits EXCEPT
                   ![i] = [Complete(Next_(@, ValDb(db'))) EXCEPT !.pc = "closed"]]
    /\ UNCHANGED <<indexedDB, observers, idb, db_event, calls, subs>>

\* request.onsuccess (lines 42-49): after the migration's complete event,
\* or at once when the stored version is the requested one
inicializar_onsuccess(i) ==
    /\ i \in DOMAIN inits
    /\ \/ inits[i].pc = "upgraded"
       \/ /\ inits[i].pc = "opening"
          /\ OpenTurn(i)
          /\ inits[i].version = idb.version
    /\ conns' = conns + 1
    /\ db' = conns'
    /\ db_event' = Append(db_event, db')
    /\ observers' = [o \in DOMAIN observers |->
                        [observers[o] EXCEPT !.live = Append(@, db')]]
    /\ inits' = [inits EXCEPT
                   ![i] = [Complete(Next_(@, ValDb(db'))) EXCEPT !.pc = "closed"]]
    /\ UNCHANGED <<indexedDB, idb, calls, subs>>

\* an error handler that publishes this.db again
inicializar_onerror_publishes(i) ==
    /\ i \in DOMAIN inits
    /\ \/ inits[i].pc = "aborted"
       \/ /\ inits[i].pc = "opening"
          /\ OpenTurn(i)
          /\ inits[i].version < idb.version
    /\ inits' = [inits EXCEPT
                   ![i] = [Error(@, IF @.pc = "aborted" THEN "AbortError"
                                    ELSE "VersionError") EXCEPT !.pc = "closed"]]
    /\ db_event' = Append(db_event, db)
    /\ observers' = [o \in DOMAIN observers |->
                        [observers[o] EXCEPT !.live = Append(@, db)]]
    /\ UNCHANGED <<indexedDB, idb, conns, db, calls, subs>>

\* an error handler that forgets the handle
inicializar_onerror_reset(i) ==
    /\ i \in DOMAIN inits
    /\ \/ inits[i].pc = "aborted"
       \/ /\ inits[i].pc = "opening"
          /\ OpenTurn(i)
          /\ inits[i].version < idb.version
    /\ inits' = [inits EXCEPT
                   ![i] = [Error(@, IF @.pc = "aborted" THEN "AbortError"
                                    ELSE "VersionError") EXCEPT !.pc = "closed"]]
    /\ db' = 0
    /\ UNCHANGED <<indexedDB, observers, idb, conns, db_event, calls, subs>>

\* request.onerror (lines 84-87): the upgrade was aborted, or the stored
\* version is above the requested one
inicializar_onerror(i) ==
    /\ i \in DOMAIN inits
    /\ \/ inits[i].pc = "aborted"
       \/ /\ inits[i].pc = "opening"
          /\ OpenTurn(i)
          /\ inits[i].version < idb.version
    /\ inits' = [inits EXCEPT
                   ![i] = [Error(@, IF @.pc = "aborted" THEN "AbortError"
                                    ELSE "VersionError") EXCEPT !.pc = "closed"]]
    /\ UNCHANGED <<indexedDB, observers, idb, conns, db, db_event, calls, subs>>

\* request.onerror (lines 84-87) for a failure of the engine itself (the
\* disk, the quota): the open request ends with an error, nothing is opened
inicializar_onerror_engine(i) ==
    /\ i \in DOMAIN inits
    /\ inits[i].pc = "opening"
    /\ OpenTurn(i)
    /\ inits' = [inits EXCEPT
                   ![i] = [Error(@, "UnknownError") EXCEPT !.pc = "closed"]]
    /\ UNCHANGED <<indexedDB, observers, idb, conns, db, db_event, calls, subs>>

\* db_event.subscribe: db_event is new ReplaySubject<IDBDatabase>() (line
\* 10), made with no bufferSize, so its buffer is unbounded and a new
\* subscriber is replayed every value published so far, in order.  Later
\* values reach it live (inicializar_onsuccess).
db_event_subscribe ==
    /\ observers' = Append(observers, [replayed |-> db_event, live |-> << >>])
    /\ UNCHANGED <<indexedDB, idb, conns, db, db_event, inits, calls, subs>>

----------------------------------------------------------------------------
(* The record operations (lines 105-349) *)

NoData == [id |-> 0]

\* db_inicializada without its check: every operation goes on
db_inicializada_skip(s) == [ret |-> FALSE, s |-> s]

\* db_inicializada (lines 105-113): whether the operation must return, and
\* the subscriber after the check
db_inicializada(s) ==
    IF db = 0 THEN [ret |-> TRUE, s |-> Error(s, msj)]
    ELSE [ret |-> FALSE, s |-> s]

\* objectStore (lines 339-349): a readwrite transaction on the one store,
\* on which the caller places its request
objectStore(s) == [s EXCEPT !.tx = TRUE, !.pc = "pending"]

\* The subscribe function every operation starts with: the gate, then the
\* transaction and the request (lines 126-128, 172-183, 224-226, 243-245,
\* 262-264, 288-290, 307-310).  s.db is this.db as the subscription read it.
Subscribed(op, tabla, data, id, call) ==
    LET s == [op |-> op, tabla |-> tabla, data |-> data, id |-> id,
              call |-> call, db |-> db, tx |-> FALSE, pc |-> "closed",
              st |-> "open", vals |-> << >>, err |-> "",
              contador |-> 0, hasSkipped |-> FALSE, req |-> "open", pos |-> 0,
              n |-> 0]
        g == db_inicializada(s)
    IN  IF g.ret THEN g.s ELSE objectStore(g.s)

\* The operations are called on collections the open database declares.
Declared(tabla) == db # 0 => idb.stores[tabla].exists

\* an engine that runs the requests of every transaction as they come
TxTurn_unordered(i) == i \in DOMAIN subs

\* the transactions created before i's on the same store have finished
TxTurn(i) ==
    \A j \in 1..(i - 1) : subs[j].tabla = subs[i].tabla => subs[j].pc # "pending"

\* the callback of subscription i's request is due
Due(i, op) ==
    /\ i \in DOMAIN subs
    /\ subs[i].op = op
    /\ subs[i].pc = "pending"
    /\ TxTurn(i)

TheStore(i) == idb.stores[subs[i].tabla]

SetRows(i, rows) ==
    [idb EXCEPT !.stores[subs[i].tabla].rows = rows]

\* a callback that emits v and completes
Finish(s, v) == [Complete(Next_(s, v)) EXCEPT !.pc = "closed"]
\* a callback that reports e
Fail(s, e) == [Error(s, e) EXCEPT !.pc = "closed"]

(* save (lines 124-142) *)

\* save placing a put request
save_request_put(store, data) == IDBput(store, data)

save_request(store, data) == IDBadd(store, data)

save(data, tabla) ==
    /\ Declared(tabla)
    /\ subs' = Append(subs, Subscribed("save", tabla, data, 0, 0))
    /\ UNCHANGED <<indexedDB, observers, idb, conns, db, db_event, inits, calls>>

\* request.onsuccess (lines 130-134)
save_onsuccess(i) ==
    /\ Due(i, "save")
    /\ LET r == save_request(TheStore(i), subs[i].data) IN
       /\ r.ok
       /\ idb' = SetRows(i, r.rows)
    /\ subs' = [subs EXCEPT ![i] = Finish(@, ValThis)]
    /\ UNCHANGED <<indexedDB, observers, conns, db, db_event, inits, calls>>

\* request.onerror (lines 136-140): err.target.error is the ConstraintError
save_onerror(i) ==
    /\ Due(i, "save")
    /\ LET r == save_request(TheStore(i), subs[i].data) IN
       /\ ~r.ok
       /\ idb' = SetRows(i, r.rows)
    /\ subs' = [subs EXCEPT ![i] = Fail(@, "ConstraintError")]
    /\ UNCHANGED <<indexedDB, observers, conns, db, db_event, inits, calls>>

(* findById (lines 222-239) *)

\* findById reading the first record of the store, whatever the id
findById_request_first(store, id) ==
    IF DOMAIN store.rows = {} THEN ValUndefined
    ELSE ValRecord(store.rows[Min(DOMAIN store.rows)])

findById_request(store, id) == IDBget(store, id)

findById(tabla, id) ==
    /\ Declared(tabla)
    /\ subs' = Append(subs, Subscribed("findById", tabla, NoData, id, 0))
    /\ UNCHANGED <<indexedDB, observers, idb, conns, db, db_event, inits, calls>>

\* request.onsuccess (lines 228-232)
findById_onsuccess(i) ==
    /\ Due(i, "findById")
    /\ subs' = [subs EXCEPT
                  ![i] = Finish(@, findById_request(TheStore(i), subs[i].id))]
    /\ UNCHANGED <<indexedDB, observers, idb, conns, db, db_event, inits, calls>>

\* request.onerror (lines 234-237): the engine fails the request, nothing is
\* written
findById_onerror(i) ==
    /\ Due(i, "findById")
    /\ subs' = [subs EXCEPT ![i] = Fail(@, "UnknownError")]
    /\ UNCHANGED <<indexedDB, observers, idb, conns, db, db_event, inits, calls>>

(* update (lines 241-258) *)

\* update merging the fields of data into the stored record
update_request_merge(store, data) ==
    LET key == data[store.keyPath]
        old == IF key \in DOMAIN store.rows THEN store.rows[key] ELSE data
        new == [f \in DOMAIN old \cup DOMAIN data |->
                   IF f \in DOMAIN data THEN data[f] ELSE old[f]]
    IN  IDBput(store, new)

update_request(store, data) == IDBput(store, data)

update(data, tabla) ==
    /\ Declared(tabla)
    /\ subs' = Append(subs, Subscribed("update", tabla, data, 0, 0))
    /\ UNCHANGED <<indexedDB, observers, idb, conns, db, db_event, inits, calls>>

\* request.onsuccess (lines 247-251)
update_onsuccess(i) ==
    /\ Due(i, "update")
    /\ idb' = SetRows(i, update_request(TheStore(i), subs[i].data).rows)
    /\ subs' = [subs EXCEPT ![i] = Finish(@, ValThis)]
    /\ UNCHANGED <<indexedDB, observers, conns, db, db_event, inits, calls>>

\* request.onerror (lines 253-256): the engine fails the request, nothing is
\* written
update_onerror(i) ==
    /\ Due(i, "update")
    /\ subs' = [subs EXCEPT ![i] = Fail(@, "UnknownError")]
    /\ UNCHANGED <<indexedDB, observers, idb, conns, db, db_event, inits, calls>>

(* delete (lines 260-277) *)

\* delete removing the first record of the store, whatever the id
delete_request_first(store, id) ==
    IF DOMAIN store.rows = {} THEN store.rows
    ELSE IDBdelete(store, Min(DOMAIN store.rows))

delete_request(store, id) == IDBdelete(store, id)

delete(tabla, id) ==
    /\ Declared(tabla)
    /\ subs' = Append(subs, Subscribed("delete", tabla, NoData, id, 0))
    /\ UNCHANGED <<indexedDB, observers, idb, conns, db, db_event, inits, calls>>

\* request.onsuccess (lines 266-270)
delete_onsuccess(i) ==
    /\ Due(i, "delete")
    /\ idb' = SetRows(i, delete_request(TheStore(i), subs[i].id))
    /\ subs' = [subs EXCEPT ![i] = Finish(@, ValUndefined)]
    /\ UNCHANGED <<indexedDB, observers, conns, db, db_event, inits, calls>>

\* request.onerror (lines 272-275): the engine fails the request, nothing is
\* written
delete_onerror(i) ==
    /\ Due(i, "delete")
    /\ subs' = [subs EXCEPT ![i] = Fail(@, "UnknownError")]
    /\ UNCHANGED <<indexedDB, observers, idb, conns, db, db_event, inits, calls>>

(* deleteAll (lines 286-303) *)

\* deleteAll removing one record only
deleteAll_request_one(store) ==
    IF DOMAIN store.rows = {} THEN store.rows
    ELSE IDBdelete(store, Min(DOMAIN store.rows))

deleteAll_request(store) == IDBclear(store)

deleteAll(tabla) ==
    /\ Declared(tabla)
    /\ subs' = Append(subs, Subscribed("deleteAll", tabla, NoData, 0, 0))
    /\ UNCHANGED <<indexedDB, observers, idb, conns, db, db_event, inits, calls>>

\* request.onsuccess (lines 292-296)
deleteAll_onsuccess(i) ==
    /\ Due(i, "deleteAll")
    /\ idb' = SetRows(i, deleteAll_request(TheStore(i)))
    /\ subs' = [subs EXCEPT ![i] = Finish(@, ValThis)]
    /\ UNCHANGED <<indexedDB, observers, conns, db, db_event, inits, calls>>

\* request.onerror (lines 298-301): the engine fails the request, nothing is
\* written
deleteAll_onerror(i) ==
    /\ Due(i, "deleteAll")
    /\ subs' = [subs EXCEPT ![i] = Fail(@, "UnknownError")]
    /\ UNCHANGED <<indexedDB, observers, idb, conns, db, db_event, inits, calls>>

(* contarDatos (lines 305-322) *)

contarDatos_request(store) == IDBcount(store)

contarDatos(tabla) ==
    /\ Declared(tabla)
    /\ subs' = Append(subs, Subscribed("contarDatos", tabla, NoData, 0, 0))
    /\ UNCHANGED <<indexedDB, observers, idb, conns, db, db_event, inits, calls>>

\* request.onsuccess (lines 312-315)
contarDatos_onsuccess(i) ==
    /\ Due(i, "contarDatos")
    /\ subs' = [subs EXCEPT
                  ![i] = Finish(@, ValCount(contarDatos_request(TheStore(i))))]
    /\ UNCHANGED <<indexedDB, observers, idb, conns, db, db_event, inits, calls>>

\* request.onerror (lines 317-320): the engine fails the request, nothing is
\* written
contarDatos_onerror(i) ==
    /\ Due(i, "contarDatos")
    /\ subs' = [subs EXCEPT ![i] = Fail(@, "UnknownError")]
    /\ UNCHANGED <<indexedDB, observers, idb, conns, db, db_event, inits, calls>>

(* find (lines 160-210) *)

\* The call (lines 160-170) makes the array datos, and the subscription
\* (lines 171-183) passes the gate, clamps paginacion.skip and opens the
\* cursor with contador = 0 and hasSkipped = false.
find(tabla, paginacion) ==
    /\ Declared(tabla)
    /\ LET c == Len(calls) + 1
           s == Subscribed("find", tabla, NoData, 0, c)
       IN  /\ subs' = Append(subs, s)
           /\ calls' = Append(calls,
                  [skip |-> IF s.tx /\ paginacion.skip < 0 THEN 0
                            ELSE paginacion.skip,
                   limit |-> paginacion.limit,
                   datos |-> << >>])
    /\ UNCHANGED <<indexedDB, observers, idb, conns, db, db_event, inits>>

\* A further subscription to the observable that call c of find returned
\* (lines 171-183): the gate, the clamp and a new cursor with its own
\* contador and hasSkipped.  datos is declared in find, outside the function
\* given to new Observable (line 170), so it is the array of call c, with
\* whatever the earlier subscriptions pushed.
find_subscribe(c) ==
    /\ c \in DOMAIN calls
    /\ LET first == CHOOSE j \in DOMAIN subs : subs[j].call = c
           s == Subscribed("find", subs[first].tabla, NoData, 0, c)
       IN  /\ subs' = Append(subs, s)
           /\ calls' = [calls EXCEPT
                  ![c].skip = IF s.tx /\ @ < 0 THEN 0 ELSE @]
    /\ UNCHANGED <<indexedDB, observers, idb, conns, db, db_event, inits>>

\* salir (lines 174-177)
salir(s) == Finish(s, ValDatos(s.call))

\* a handler that never sets hasSkipped
find_onsuccess_reskips(i) ==
    /\ Due(i, "find")
    /\ LET s == subs[i]
           paginacion == calls[s.call]
           cursor == CursorResult(TheStore(i), s.req, s.pos, s.n)
       IN  IF ~s.hasSkipped /\ paginacion.skip > 0
           THEN /\ subs' = [subs EXCEPT
                       ![i] = IF cursor = 0
                              THEN [s EXCEPT !.pc = "threw"]
                              ELSE [s EXCEPT !.req = "advance", !.pos = cursor,
                                             !.n = paginacion.skip]]
                /\ calls' = calls
           ELSE IF cursor # 0 /\ s.contador < paginacion.limit
           THEN /\ calls' = [calls EXCEPT
                       ![s.call].datos = Append(@, TheStore(i).rows[cursor])]
                /\ subs' = [subs EXCEPT
                       ![i] = [s EXCEPT !.req = "continue", !.pos = cursor,
                                        !.n = 1, !.contador = @ + 1]]
           ELSE /\ subs' = [subs EXCEPT ![i] = salir(s)]
                /\ calls' = calls
    /\ UNCHANGED <<indexedDB, observers, idb, conns, db, db_event, inits>>

\* request.onsuccess (lines 185-203).  cursor is e.target.result, 0 for
\* null.  cursor.advance on a null cursor is a TypeError inside the event
\* handler: the handler ends there, the request is done and no further
\* event comes, so the subscriber hears nothing (pc = "threw").
find_onsuccess(i) ==
    /\ Due(i, "find")
    /\ LET s == subs[i]
           paginacion == calls[s.call]
           cursor == CursorResult(TheStore(i), s.req, s.pos, s.n)
       IN  IF ~s.hasSkipped /\ paginacion.skip > 0
           THEN /\ subs' = [subs EXCEPT
                       ![i] = IF cursor = 0
                              THEN [s EXCEPT !.hasSkipped = TRUE, !.pc = "threw"]
                              ELSE [s EXCEPT !.hasSkipped = TRUE,
                                             !.req = "advance", !.pos = cursor,
                                             !.n = paginacion.skip]]
                /\ calls' = calls
           ELSE IF cursor # 0 /\ s.contador < paginacion.limit
           THEN /\ calls' = [calls EXCEPT
                       ![s.call].datos = Append(@, TheStore(i).rows[cursor])]
                /\ subs' = [subs EXCEPT
                       ![i] = [s EXCEPT !.req = "continue", !.pos = cursor,
                                        !.n = 1, !.contador = @ + 1]]
           ELSE /\ subs' = [subs EXCEPT ![i] = salir(s)]
                /\ calls' = calls
    /\ UNCHANGED <<indexedDB, observers, idb, conns, db, db_event, inits>>

\* request.onerror (lines 205-208): the engine fails a step of the cursor;
\* the records collected so far stay in datos and salir is not called
find_onerror(i) ==
    /\ Due(i, "find")
    /\ subs' = [subs EXCEPT ![i] = Fail(@, "UnknownError")]
    /\ UNCHANGED <<indexedDB, observers, idb, conns, db, db_event, inits, calls>>

----------------------------------------------------------------------------
(* The service in a session: any calls, any order of the callbacks due *)

Paginaciones == [skip : (-1)..MaxSkip, limit : 1..MaxLimit]
SessionPaginaciones == [skip : 0..MaxSessionSkip, limit : 1..MaxSessionLimit]

\* a call of a record operation, with its subscription
Call ==
    \E t \in Tablas :
        \/ \E d \in AllDatos : save(d, t)
        \/ \E d \in AllDatos : update(d, t)
        \/ \E k \in Keys : findById(t, k)
        \/ \E k \in Keys : delete(t, k)
        \/ deleteAll(t)
        \/ contarDatos(t)
        \/ \E p \in SessionPaginaciones : find(t, p)

\* a callback of a record operation's request
Callback ==
    \/ \E i \in DOMAIN subs : save_onsuccess(i)
    \/ \E i \in DOMAIN subs : save_onerror(i)
    \/ \E i \in DOMAIN subs : findById_onsuccess(i)
    \/ \E i \in DOMAIN subs : update_onsuccess(i)
    \/ \E i \in DOMAIN subs : delete_onsuccess(i)
    \/ \E i \in DOMAIN subs : deleteAll_onsuccess(i)
    \/ \E i \in DOMAIN subs : contarDatos_onsuccess(i)
    \/ \E i \in DOMAIN subs : find_onsuccess(i)

Next ==
    \/ /\ Len(inits) < MaxInits
       /\ \E v \in 1..MaxVersion, sch \in Schemas : inicializar(v, sch)
    \/ \E i \in DOMAIN inits : inicializar_onupgradeneeded(i)
    \/ \E i \in DOMAIN inits : inicializar_oncomplete(i)
    \/ \E i \in DOMAIN inits : inicializar_onsuccess(i)
    \/ \E i \in DOMAIN inits : inicializar_onerror(i)
    \/ Len(subs) < MaxSubs /\ Call
    \/ Callback

Spec == Init /\ [][Next]_vars

----------------------------------------------------------------------------
(* The session with an engine that can fail any request *)

Fault ==
    \/ \E i \in DOMAIN inits : inicializar_onerror_engine(i)
    \/ \E i \in DOMAIN subs : find_onerror(i)
    \/ \E i \in DOMAIN subs : findById_onerror(i)
    \/ \E i \in DOMAIN subs : update_onerror(i)
    \/ \E i \in DOMAIN subs : delete_onerror(i)
    \/ \E i \in DOMAIN subs : deleteAll_onerror(i)
    \/ \E i \in DOMAIN subs : contarDatos_onerror(i)

\* each record operation called with one input
Gate ==
    \E t \in Tablas :
        \/ save(FirstRows(1)[1], t)
        \/ update(FirstRows(1)[1], t)
        \/ findById(t, 1)
        \/ delete(t, 1)
        \/ deleteAll(t)
        \/ contarDatos(t)
        \/ find(t, [skip |-> 0, limit |-> 1])

NextFaults ==
    \/ /\ Len(inits) < MaxInits
       /\ \E v \in 1..MaxVersion, sch \in Schemas : inicializar(v, sch)
    \/ \E i \in DOMAIN inits : inicializar_onupgradeneeded(i)
    \/ \E i \in DOMAIN inits : inicializar_oncomplete(i)
    \/ \E i \in DOMAIN inits : inicializar_onsuccess(i)
    \/ \E i \in DOMAIN inits : inicializar_onerror(i)
    \/ Len(subs) < MaxSubs /\ Gate
    \/ Callback
    \/ Fault

SpecFaults == Init /\ [][NextFaults]_vars

----------------------------------------------------------------------------
(* An initialized session: inicializar has succeeded on the database of   *)
(* an earlier session, and the record operations are called                *)

Ready(rows) ==
    /\ indexedDB = TRUE
    /\ idb = [version |-> 1,
              stores |-> [NoStores EXCEPT !["users"] = Store("id", rows)]]
    /\ conns = 1
    /\ db = 1
    /\ db_event = <<1>>
    /\ observers = << >>
    /\ inits = <<[version |-> 1, schema |-> <<"users">>, pc |-> "closed",
                  st |-> "completed", vals |-> <<ValDb(1)>>, err |-> ""]>>
    /\ calls = << >>
    /\ subs = << >>

InitOps == \E n \in 0..MaxKey : Ready(FirstRows(n))

NextOps ==
    \/ Len(subs) < MaxOps /\ Call
    \/ Callback

SpecOps == InitOps /\ [][NextOps]_vars

----------------------------------------------------------------------------
(* A session that calls inicializar more than once, with observers of      *)
(* db_event                                                                *)

NextInits ==
    \/ /\ Len(inits) < MaxReinits
       /\ \E v \in 1..MaxVersion, sch \in Schemas : inicializar(v, sch)
    \/ \E i \in DOMAIN inits : inicializar_onupgradeneeded(i)
    \/ \E i \in DOMAIN inits : inicializar_oncomplete(i)
    \/ \E i \in DOMAIN inits : inicializar_onsuccess(i)
    \/ \E i \in DOMAIN inits : inicializar_onerror(i)
    \/ \E i \in DOMAIN inits : inicializar_onerror_engine(i)
    \/ Len(observers) < MaxObservers /\ db_event_subscribe

SpecInits == Init /\ [][NextInits]_vars

\* A session that calls inicializar more than once, with the record
\* operations called in between
NextHandle ==
    \/ /\ Len(inits) < MaxReinits
       /\ \E v \in 1..MaxVersion : inicializar(v, <<"users">>)
    \/ \E i \in DOMAIN inits : inicializar_onupgradeneeded(i)
    \/ \E i \in DOMAIN inits : inicializar_oncomplete(i)
    \/ \E i \in DOMAIN inits : inicializar_onsuccess(i)
    \/ \E i \in DOMAIN inits : inicializar_onerror(i)
    \/ Len(subs) < MaxGates /\ Gate
    \/ Callback

SpecHandle == Init /\ [][NextHandle]_vars

----------------------------------------------------------------------------
(* Scans only: an initialized session on a collection of any content, and  *)
(* calls of find with any paginacion                                       *)

RowsOf(K) == [k \in K |-> [id |-> k, nombre |-> "a"]]

InitScan == \E K \in SUBSET Keys : Ready(RowsOf(K))

NextScan ==
    \/ /\ Len(subs) < MaxScans
       /\ \E p \in Paginaciones : find("users", p)
    \/ \E i \in DOMAIN subs : find_onsuccess(i)

SpecScan == InitScan /\ [][NextScan]_vars

\* the observables that find returns, subscribed any number of times
NextResub ==
    \/ /\ Len(subs) < MaxResubs
       /\ \/ \E t \in Tablas, p \in SessionPaginaciones : find(t, p)
          \/ \E c \in DOMAIN calls : find_subscribe(c)
    \/ \E i \in DOMAIN subs : find_onsuccess(i)

SpecResub == InitScan /\ [][NextResub]_vars

\* one scan followed from its subscription to its end
NextFind ==
    \/ /\ Len(subs) < MaxFinds
       /\ \E t \in Tablas, p \in Paginaciones : find(t, p)
    \/ \E i \in DOMAIN subs : find_onsuccess(i)

InitFind == \E K \in SUBSET (1..MaxFindKey) : Ready(RowsOf(K))

SpecFind == InitFind /\ [][NextFind]_vars

----------------------------------------------------------------------------
(* The claims *)

\* subscription i's request is answered in this step
Answered(i, op) ==
    /\ subs[i].op = op
    /\ subs[i].pc = "pending"
    /\ subs'[i].pc # "pending"

\* the subscriber got exactly v and completion, and no error
Got(s, v) == s.st = "completed" /\ s.vals = <<v>> /\ s.err = ""

KeyOfData(i) == subs[i].data[TheStore(i).keyPath]

\* C1: a record operation (any of the seven) subscribed while this.db is
\* absent gives its subscriber the error "No se ha inicializado la BD" and
\* no value, and opens no transaction and places no request.
C1_GateRejects ==
    \A i \in DOMAIN subs :
        subs[i].db = 0 =>
            /\ subs[i].st = "errored"
            /\ subs[i].err = msj
            /\ subs[i].vals = << >>
            /\ ~subs[i].tx
            /\ subs[i].pc = "closed"

\* a find subscribed while inicializar's open request is still unanswered
C1_Witness ==
    \E i \in DOMAIN subs, j \in DOMAIN inits :
        /\ subs[i].op = "find"
        /\ subs[i].db = 0
        /\ subs[i].err = msj
        /\ inits[j].pc = "opening"

\* C2: once the subscriber of inicializar has received completion, this.db
\* is present, so a record operation subscribed then passes the gate.
C2_ReadyAtCompletion ==
    \A i \in DOMAIN inits :
        inits[i].st = "completed" =>
            /\ db # 0
            /\ ~db_inicializada(Subscribed("save", "users", NoData, 0, 0)).ret

\* C5: a migration (requested version above the stored one) meeting a
\* collection of the descriptor that exists already does not fail: the
\* upgradeneeded handler ends normally, every collection of the descriptor
\* exists afterwards and the existing ones are as they were.
C5_MigrationIdempotent ==
    [][\A i \in DOMAIN inits :
          (/\ inits[i].pc = "opening"
           /\ inits'[i].pc # "opening"
           /\ inits[i].version > idb.version
           /\ \E x \in DOMAIN inits[i].schema :
                 idb.stores[inits[i].schema[x]].exists)
          => /\ inits'[i].pc = "upgrading"
             /\ \A n \in StoreNames :
                  /\ (\E x \in DOMAIN inits[i].schema : inits[i].schema[x] = n)
                        => idb'.stores[n].exists
                  /\ idb.stores[n].exists => idb'.stores[n] = idb.stores[n]]_vars

RECURSIVE SortedKeys(_)
SortedKeys(S) ==
    IF S = {} THEN << >> ELSE <<Min(S)>> \o SortedKeys(S \ {Min(S)})

\* the records at positions skip+1 .. skip+limit of the key order
Window(store, skip, limit) ==
    LET ks == SortedKeys(DOMAIN store.rows)
        n == Len(ks) - skip
        len == IF n < 0 THEN 0 ELSE IF n < limit THEN n ELSE limit
    IN  [x \in 1..len |-> store.rows[ks[skip + x]]]

Ended(i) == subs[i].op = "find" /\ subs[i].pc # "pending"

\* C3: on a collection of any size N >= 0 that is not written, a find with
\* skip >= 0 and limit > 0 emits exactly one sequence, the records at
\* positions skip .. skip + max(0, min(limit, N - skip)) - 1 of the key order.
C3_FindWindow ==
    \A i \in DOMAIN subs :
        Ended(i) =>
            /\ Got(subs[i], ValDatos(subs[i].call))
            /\ calls[subs[i].call].datos =
                 Window(idb.stores[subs[i].tabla],
                        calls[subs[i].call].skip, calls[subs[i].call].limit)

\* C4: on an unchanged collection of any size, the results of
\* find({skip: a, limit: m}) and find({skip: a+m, limit: n}) concatenated
\* are the result of find({skip: a, limit: m+n}), and all three scans emit.
C4_WindowComposition ==
    \A i, j, k \in DOMAIN subs :
        LET pi == calls[subs[i].call]
            pj == calls[subs[j].call]
            pk == calls[subs[k].call]
        IN  (/\ Ended(i) /\ Ended(j) /\ Ended(k)
             /\ pj.skip = pi.skip + pi.limit
             /\ pk.skip = pi.skip
             /\ pk.limit = pi.limit + pj.limit)
            => /\ Got(subs[i], ValDatos(subs[i].call))
               /\ Got(subs[j], ValDatos(subs[j].call))
               /\ Got(subs[k], ValDatos(subs[k].call))
               /\ pi.datos \o pj.datos = pk.datos

\* C6: a save whose key is already in the collection gives its subscriber
\* the engine's error and no value, and leaves the storage as it was.
C6_SaveNeverOverwrites ==
    [][\A i \in DOMAIN subs :
          (Answered(i, "save") /\ KeyOfData(i) \in DOMAIN TheStore(i).rows)
          => /\ subs'[i].st = "errored"
             /\ subs'[i].err = "ConstraintError"
             /\ subs'[i].vals = << >>
             /\ idb' = idb]_vars

\* a second save of a key failed and the first record is still stored
C6_Witness ==
    \E i, j \in DOMAIN subs :
        /\ i < j
        /\ subs[i].op = "save" /\ subs[i].st = "completed"
        /\ subs[j].op = "save" /\ subs[j].err = "ConstraintError"
        /\ subs[j].data # subs[i].data
        /\ subs[j].data.id = subs[i].data.id
        /\ subs[i].data.id \in DOMAIN idb.stores["users"].rows
        /\ idb.stores["users"].rows[subs[i].data.id] = subs[i].data

\* subscription k is an update, delete or deleteAll that touches key
Touches(k, tabla, key) ==
    /\ subs[k].tabla = tabla
    /\ \/ subs[k].op = "update" /\ subs[k].data.id = key
       \/ subs[k].op = "delete" /\ subs[k].id = key
       \/ subs[k].op = "deleteAll"

\* C7: findById of the key of a record R that a save stored, with no update,
\* delete or deleteAll touching the key in between, emits exactly R; findById
\* of a key without record emits undefined and completes without error.
C7_RoundTrip ==
    [][\A j \in DOMAIN subs :
          Answered(j, "findById") =>
             /\ \A i \in 1..(j - 1) :
                  (/\ subs[i].op = "save"
                   /\ subs[i].st = "completed"
                   /\ subs[i].tabla = subs[j].tabla
                   /\ subs[i].data.id = subs[j].id
                   /\ \A k \in (i + 1)..(j - 1) :
                        ~Touches(k, subs[j].tabla, subs[j].id))
                  => Got(subs'[j], ValRecord(subs[i].data))
             /\ subs[j].id \notin DOMAIN TheStore(j).rows
                  => Got(subs'[j], ValUndefined)]_vars

\* a save stored a record and the findById after it emitted it
C7_Witness ==
    \E i, j \in DOMAIN subs :
        /\ i < j
        /\ subs[i].op = "save" /\ subs[i].st = "completed"
        /\ subs[j].op = "findById" /\ subs[j].id = subs[i].data.id
        /\ subs[j].vals = <<ValRecord(subs[i].data)>>

\* C8: update succeeds whether or not the key exists; afterwards the
\* collection holds exactly the given record under its key, every other
\* record is as before, and there is one record more only if the key was new.
C8_Upsert ==
    [][\A i \in DOMAIN subs :
          Answered(i, "update") =>
             LET old == TheStore(i).rows
                 new == idb'.stores[subs[i].tabla].rows
                 key == KeyOfData(i)
             IN  /\ Got(subs'[i], ValThis)
                 /\ DOMAIN new = DOMAIN old \cup {key}
                 /\ new[key] = subs[i].data
                 /\ \A k \in DOMAIN old \ {key} : new[k] = old[k]
                 /\ Cardinality(DOMAIN new) =
                      Cardinality(DOMAIN old) + (IF key \in DOMAIN old THEN 0 ELSE 1)]_vars

\* an update replaced a record of another shape, beside another record
C8_Witness ==
    \E i \in DOMAIN subs :
        /\ subs[i].op = "update" /\ subs[i].st = "completed"
        /\ subs[i].data = [id |-> 1, edad |-> 1]
        /\ idb.stores["users"].rows = (1 :> [id |-> 1, edad |-> 1]
                                       @@ 2 :> [id |-> 2, nombre |-> "a"])

\* C9: delete succeeds whether or not the key has a record and removes that
\* record only; a delete right after a delete of the same key succeeds too
\* and leaves the storage as the first left it.
C9_DeleteIdempotent ==
    [][\A j \in DOMAIN subs :
          Answered(j, "delete") =>
             LET old == TheStore(j).rows
                 new == idb'.stores[subs[j].tabla].rows
             IN  /\ Got(subs'[j], ValUndefined)
                 /\ DOMAIN new = DOMAIN old \ {subs[j].id}
                 /\ \A k \in DOMAIN new : new[k] = old[k]
                 /\ (/\ j > 1
                     /\ subs[j - 1].op = "delete"
                     /\ subs[j - 1].tabla = subs[j].tabla
                     /\ subs[j - 1].id = subs[j].id)
                    => Got(subs[j - 1], ValUndefined) /\ idb' = idb]_vars

\* two deletes of the same key, the first of which removed a record
C9_Witness ==
    \E j \in DOMAIN subs :
        /\ j > 1
        /\ subs[j].op = "delete" /\ subs[j].st = "completed"
        /\ subs[j - 1].op = "delete" /\ subs[j - 1].st = "completed"
        /\ subs[j - 1].id = subs[j].id
        /\ subs[j].id = 1
        /\ Cardinality(DOMAIN idb.stores["users"].rows) = MaxKey - 1

\* C10: contarDatos emits the number of records the collection holds when
\* its request is answered; deleteAll succeeds on any collection and empties
\* it, and a contarDatos right after it emits 0.
C10_CountAndClear ==
    [][\A j \in DOMAIN subs :
          /\ Answered(j, "contarDatos") =>
                /\ Got(subs'[j], ValCount(Cardinality(DOMAIN TheStore(j).rows)))
                /\ (/\ j > 1
                    /\ subs[j - 1].op = "deleteAll"
                    /\ subs[j - 1].tabla = subs[j].tabla)
                   => Got(subs'[j], ValCount(0))
          /\ Answered(j, "deleteAll") =>
                /\ Got(subs'[j], ValThis)
                /\ idb'.stores[subs[j].tabla].rows = << >>]_vars

\* a deleteAll on a full collection, then a contarDatos that emitted 0
C10_Witness ==
    \E j \in DOMAIN subs :
        /\ j > 1
        /\ subs[j].op = "contarDatos" /\ subs[j].vals = <<ValCount(0)>>
        /\ subs[j - 1].op = "deleteAll" /\ subs[j - 1].st = "completed"

----------------------------------------------------------------------------
\* C11: db_event replays a single value: an observer that subscribes after
\* k >= 1 handles were published is replayed exactly one value, the k-th
\* (the most recent), and an observer that subscribes before any handle was
\* published is replayed nothing and gets the first one live.
C11_SingleSlotReplay ==
    \A o \in DOMAIN observers :
        LET k == Len(db_event) - Len(observers[o].live)
        IN  /\ observers[o].replayed =
                  IF k = 0 THEN << >> ELSE <<db_event[k]>>
            /\ observers[o].live = SubSeq(db_event, k + 1, Len(db_event))

----------------------------------------------------------------------------
\* what a subscriber has observed is a prefix of "one value, completion" or
\* of "one error"
Protocol(s) ==
    \/ s.st = "open" /\ s.vals = << >> /\ s.err = ""
    \/ s.st = "completed" /\ Len(s.vals) = 1 /\ s.err = ""
    \/ s.st = "errored" /\ s.vals = << >> /\ s.err # ""

\* C12: every subscription of inicializar and of the seven record
\* operations observes one value and then the completion, or one error and
\* no value: never two values, never a value and an error.  A find whose
\* cursor fails after records were collected delivers the error only.
C12_CompletionProtocol ==
    /\ \A i \in DOMAIN inits : Protocol(inits[i])
    /\ \A i \in DOMAIN subs : Protocol(subs[i])

\* a find failed by the engine after it had collected a record
C12_Witness ==
    \E i \in DOMAIN subs :
        /\ subs[i].op = "find"
        /\ subs[i].st = "errored"
        /\ subs[i].vals = << >>
        /\ subs[i].contador >= 1
        /\ calls[subs[i].call].datos # << >>

----------------------------------------------------------------------------
\* C13: on the migration path of inicializar the handle is neither in
\* this.db nor published on db_event while the migration transaction runs;
\* the transaction's completion emits the "setup complete" signal (no
\* handle) to the subscriber and publishes nothing, and the handle is stored
\* and published by a later, separate step, the open request's success.
C13_MigrationThenHandle ==
    [][\A i \in DOMAIN inits :
          /\ inits[i].pc = "upgrading"
                => /\ db = 0
                   /\ db_event = << >>
                   /\ inits[i].vals = << >>
          /\ (inits[i].pc = "upgrading" /\ inits'[i] # inits[i])
                => /\ inits'[i].pc = "upgraded"
                   /\ inits'[i].vals = <<ValUndefined>>
                   /\ db' = db
                   /\ db_event' = db_event
                   /\ observers' = observers
          /\ (inits[i].pc = "upgraded" /\ inits'[i] # inits[i])
                => /\ inits'[i].pc = "closed"
                   /\ db' # 0
                   /\ db_event' = Append(db_event, db')
                   /\ \A o \in DOMAIN observers :
                         observers'[o].live = Append(observers[o].live, db')]_vars

\* a migration ran to the end, then the handle was stored and reached an
\* observer that had subscribed before
C13_Witness ==
    \E i \in DOMAIN inits :
        /\ inits[i].pc = "closed"
        /\ inits[i].vals = <<ValUndefined>>
        /\ db # 0
        /\ db_event = <<db>>
        /\ \E o \in DOMAIN observers :
              observers[o].replayed = << >> /\ observers[o].live = <<db>>

----------------------------------------------------------------------------
\* C14: when inicializar fails (no storage capability, or the open request
\* or its migration reports an error), the subscriber gets an error and no
\* value, this.db stays as it was, nothing is published on db_event, no
\* connection is opened and the request is over; after that the failed
\* subscription does nothing more (no retry).
C14_FailureIsTerminal ==
    [][\A i \in DOMAIN inits' :
          LET before == IF i \in DOMAIN inits THEN inits[i].st ELSE "none"
          IN  /\ (inits'[i].st = "errored" /\ before # "errored")
                    => /\ inits'[i].vals = << >>
                       /\ inits'[i].pc = "closed"
                       /\ db' = db
                       /\ db_event' = db_event
                       /\ observers' = observers
                       /\ conns' = conns
                       /\ idb' = idb
              /\ before = "errored" => inits'[i] = inits[i]]_vars

\* an inicializar whose open request failed after an earlier inicializar
\* had succeeded: the handle of the first is still there and is the one
\* value published
C14_Witness ==
    /\ db # 0
    /\ db_event = <<db>>
    /\ \E i \in DOMAIN inits :
          /\ i > 1
          /\ inits[i].st = "errored"
          /\ inits[i].err = "VersionError"
          /\ inits[i].vals = << >>
          /\ inits[i - 1].st = "completed"

----------------------------------------------------------------------------
\* C15: with an engine that delivers every requested cursor callback, a
\* find on an initialized storage ends: as long as its subscriber has heard
\* nothing, a cursor callback is still to come, for every size of the
\* collection and every skip; and running out of records early is not an
\* error.
C15_FindTerminates ==
    \A i \in DOMAIN subs :
        subs[i].op = "find" =>
            /\ subs[i].st = "open" => subs[i].pc = "pending"
            /\ subs[i].st # "errored"

----------------------------------------------------------------------------
\* C16: in one find subscription the cursor is asked to jump several
\* positions at most once: only when skip > 0, by exactly skip positions,
\* as the answer to openCursor and before any record is appended; every
\* other cursor request of the scan advances exactly one position.
C16_OneJump ==
    [][\A i \in DOMAIN subs :
          (/\ subs[i].op = "find"
           /\ subs'[i] # subs[i]
           /\ subs'[i].pc = "pending")
          => LET p == calls[subs[i].call] IN
             IF subs'[i].req = "advance"
             THEN /\ subs[i].req = "open"
                  /\ ~subs[i].hasSkipped
                  /\ subs'[i].hasSkipped
                  /\ p.skip > 0
                  /\ subs'[i].n = p.skip
                  /\ subs[i].contador = 0
                  /\ p.datos = << >>
                  /\ calls' = calls
             ELSE /\ subs'[i].req = "continue"
                  /\ subs'[i].n = 1
                  /\ subs[i].hasSkipped = (p.skip > 0)
                  /\ subs'[i].hasSkipped = subs[i].hasSkipped]_vars

\* a scan that jumped over two records or more and then went on record by
\* record
C16_Witness ==
    \E i \in DOMAIN subs :
        /\ subs[i].op = "find"
        /\ calls[subs[i].call].skip >= 2
        /\ subs[i].hasSkipped
        /\ subs[i].req = "continue"
        /\ subs[i].pc = "pending"
        /\ subs[i].contador >= 1

----------------------------------------------------------------------------
\* C17: the sequence a subscriber of a find observable holds, once emitted,
\* has at most limit records and is the window a fresh find would return,
\* however many times the same observable is subscribed, and it stays so
\* when the observable is subscribed again later.
C17_OwnScanOnly ==
    \A i \in DOMAIN subs :
        (subs[i].op = "find" /\ Got(subs[i], ValDatos(subs[i].call)))
        => LET p == calls[subs[i].call] IN
           /\ Len(p.datos) <= p.limit
           /\ p.datos = Window(idb.stores[subs[i].tabla], p.skip, p.limit)

----------------------------------------------------------------------------
\* C18: with save, update, delete and deleteAll subscribed on the same
\* collection while a find scans it, nothing is written to the collection
\* from the scan's first callback to its last, and the sequence the find
\* emits is the window (skip, limit) of the collection as it stands at that
\* one instant: no later write shows in a part of the result.
C18_ScanIsolation ==
    [][\A i \in DOMAIN subs :
          subs[i].op = "find" =>
             /\ (subs[i].pc = "pending" /\ TxTurn(i))
                   => idb'.stores[subs[i].tabla] = idb.stores[subs[i].tabla]
             /\ (subs[i].st = "open" /\ subs'[i].st = "completed")
                   => calls'[subs[i].call].datos =
                        Window(idb.stores[subs[i].tabla],
                               calls[subs[i].call].skip,
                               calls[subs[i].call].limit)]_vars

\* a find that has collected a record and has a callback to come, and a
\* write on the same collection subscribed after it, waiting
C18_Witness ==
    \E i, j \in DOMAIN subs :
        /\ i < j
        /\ subs[i].op = "find"
        /\ subs[i].pc = "pending"
        /\ subs[i].contador >= 1
        /\ subs[j].op \in {"save", "update", "delete", "deleteAll"}
        /\ subs[j].tabla = subs[i].tabla
        /\ subs[j].pc = "pending"

----------------------------------------------------------------------------
\* C19: this.db is written only by the open-success callback of
\* inicializar, which stores the connection it opened, and by no record
\* operation; once present it is never absent again, also when a later
\* inicializar fails; so a record operation subscribed while it is present
\* passes the gate, and once one has passed the gate every later one does.
C19_HandleMonotone ==
    [][/\ db # 0 => db' # 0
       /\ db' # db
             => /\ conns' = conns + 1
                /\ db' = conns'
                /\ subs' = subs
                /\ \E i \in DOMAIN inits :
                      /\ inits[i].pc \in {"opening", "upgraded"}
                      /\ inits'[i].pc = "closed"
                      /\ inits'[i].st = "completed"
       /\ subs' # subs => db' = db
       /\ \A i \in DOMAIN inits :
             (inits[i].st # "errored" /\ inits'[i].st = "errored") => db' = db
       /\ (Len(subs') > Len(subs) /\ db # 0) => subs'[Len(subs')].tx
       /\ \A i, j \in DOMAIN subs' :
             (i < j /\ subs'[i].tx) => subs'[j].tx]_vars

\* a record operation passed the gate, then a second inicializar failed,
\* and a record operation subscribed after that passed the gate too
C19_Witness ==
    /\ db # 0
    /\ \E i \in DOMAIN inits :
          i > 1 /\ inits[i].st = "errored" /\ inits[i - 1].st = "completed"
    /\ Len(subs) >= 2
    /\ subs[1].tx
    /\ subs[1].pc = "closed"
    /\ subs[Len(subs)].tx
    /\ subs[Len(subs)].pc = "pending"

----------------------------------------------------------------------------
\* C20: this.db is present exactly when db_event has published a handle,
\* and then the last value db_event published is the handle in this.db.
C20_HandleIsPublished ==
    /\ db # 0 <=> db_event # << >>
    /\ db # 0 => db_event[Len(db_event)] = db

\* two initializations have succeeded: the second handle replaced the first
\* in this.db and is the last one published
C20_Witness ==
    /\ Len(db_event) = 2
    /\ db_event[1] # db_event[2]
    /\ db = db_event[2]
    /\ \A i \in DOMAIN inits : inits[i].st = "completed"

============================================================================
